---- MODULE Spec2Model ----
(***************************************************************************)
(* Model of src/const_rcc.rs: the builder ClockConfig and the calculation  *)
(* ClockConfig::get_config that turns the requested frequencies into the   *)
(* RCC register encodings (RccConfig).                                     *)
(*                                                                         *)
(* Frequencies are u32 values in Hz.  Option<T> is a record                *)
(* [some, val].  The two build-time choices that change what get_config    *)
(* computes are state: the cargo feature "connectivity" and whether the    *)
(* build checks integer overflow (const evaluation and debug builds do,    *)
(* release builds wrap).                                                   *)
(***************************************************************************)
EXTENDS Integers, FiniteSets

VARIABLES cfg, rcc, pc, wrapped, connectivity, overflow_checks

vars == <<cfg, rcc, pc, wrapped, connectivity, overflow_checks>>

(* crate::rcc::HSI, the frequency of the internal RC oscillator *)
HSI == 8000000

None == [some |-> FALSE, val |-> 0]
Some(x) == [some |-> TRUE, val |-> x]

(***************************************************************************)
(* Helpers                                                                 *)
(***************************************************************************)
u32_min(a, b) == IF a < b THEN a ELSE b

u32_max(a, b) == IF a > b THEN a ELSE b

(* 1 << n *)
Shl1(n) == 2 ^ n

(* u32 multiplication a * m, computed on 16-bit halves so that the product *)
(* is never formed outside 32 bits: MulHigh is the product shifted right   *)
(* by 16, MulOverflows says the product does not fit in a u32, and         *)
(* WrappingMul is its low 32 bits.                                         *)
MulHigh(a, m) == ((a \div 65536) * m) + (((a % 65536) * m) \div 65536)

MulOverflows(a, m) == MulHigh(a, m) >= 65536

WrappingMul(a, m) == ((MulHigh(a, m) % 65536) * 65536) + (((a % 65536) * m) % 65536)

(***************************************************************************)
(* The steps of get_config                                                 *)
(***************************************************************************)
PllSrcClk(self) == IF self.hse.some THEN self.hse.val ELSE HSI \div 2

DesiredSysclk(self) == IF self.sysclk.some THEN self.sysclk.val ELSE PllSrcClk(self)

(* mutation: the multiplier rounded to nearest instead of truncated *)
RawPllmul_Rounded(self) ==
    (DesiredSysclk(self) + (PllSrcClk(self) \div 2)) \div PllSrcClk(self)

RawPllmul(self) == DesiredSysclk(self) \div PllSrcClk(self)

ClampPllmul(conn, pllmul) ==
    IF conn THEN u32_min(u32_max(pllmul, 4), 9)
            ELSE u32_min(u32_max(pllmul, 2), 16)

(* mutation: the bypassed system clock taken as HSI / 2 *)
RealSysclk_Halved(self) == IF self.hse.some THEN self.hse.val ELSE HSI \div 2

RealSysclk(self) == IF self.hse.some THEN self.hse.val ELSE HSI

(* (pllmul_bits, sysclk), with the flag that the product left the u32 range *)
PllStep(self, conn) ==
    LET pllsrcclk == PllSrcClk(self)
        pllmul == RawPllmul(self)
    IN  IF pllmul = 1
        THEN [pllmul_bits |-> None, sysclk |-> RealSysclk(self), overflow |-> FALSE]
        ELSE LET clamped == ClampPllmul(conn, pllmul)
             IN  [pllmul_bits |-> Some(clamped - 2),
                  sysclk |-> WrappingMul(pllsrcclk, clamped),
                  overflow |-> MulOverflows(pllsrcclk, clamped)]

(* mutation: the bucket 3..=5 ends at 4 *)
HpreBits_Shifted(self, sysclk) ==
    IF self.hclk.some
    THEN LET r == sysclk \div self.hclk.val
         IN  CASE r \in 0..1 -> 7
               [] r = 2 -> 8
               [] r \in 3..4 -> 9
               [] r \in 5..11 -> 10
               [] r \in 12..39 -> 11
               [] r \in 40..95 -> 12
               [] r \in 96..191 -> 13
               [] r \in 192..383 -> 14
               [] OTHER -> 15
    ELSE 7

HpreBits(self, sysclk) ==
    IF self.hclk.some
    THEN LET r == sysclk \div self.hclk.val
         IN  CASE r \in 0..1 -> 7
               [] r = 2 -> 8
               [] r \in 3..5 -> 9
               [] r \in 6..11 -> 10
               [] r \in 12..39 -> 11
               [] r \in 40..95 -> 12
               [] r \in 96..191 -> 13
               [] r \in 192..383 -> 14
               [] OTHER -> 15
    ELSE 7

(* mutation: one decoding for both ranges of hpre_bits *)
HclkOf_OneRange(sysclk, hpre_bits) == sysclk \div Shl1(hpre_bits - 7)

HclkOf(sysclk, hpre_bits) ==
    IF hpre_bits >= 12
    THEN sysclk \div Shl1(hpre_bits - 6)
    ELSE sysclk \div Shl1(hpre_bits - 7)

(* mutation: the ratio 2 falls in the first bucket *)
PpreBits_Shifted(target, hclk_) ==
    IF target.some
    THEN LET r == hclk_ \div target.val
         IN  CASE r \in 0..2 -> 3
               [] r \in 3..5 -> 5
               [] r \in 6..11 -> 6
               [] OTHER -> 7
    ELSE 3

PpreBits(target, hclk_) ==
    IF target.some
    THEN LET r == hclk_ \div target.val
         IN  CASE r \in 0..1 -> 3
               [] r = 2 -> 4
               [] r \in 3..5 -> 5
               [] r \in 6..11 -> 6
               [] OTHER -> 7
    ELSE 3

Ppre(ppre_bits) == Shl1(ppre_bits - 3)

(* mutation: the second cutoff compared with < *)
Latency_Strict(sysclk) ==
    IF sysclk <= 24000000 THEN "WS0"
    ELSE IF sysclk < 48000000 THEN "WS1"
    ELSE "WS2"

Latency(sysclk) ==
    IF sysclk <= 24000000 THEN "WS0"
    ELSE IF sysclk <= 48000000 THEN "WS1"
    ELSE "WS2"

(* mutation: the external oscillator is not required *)
Usb_IgnoreHse(self, pllmul_bits, sysclk) ==
    IF pllmul_bits.some /\ sysclk = 72000000
    THEN [usbpre |-> "DIV1_5", usbclk_valid |-> TRUE]
    ELSE IF pllmul_bits.some /\ sysclk = 48000000
    THEN [usbpre |-> "DIV1", usbclk_valid |-> TRUE]
    ELSE [usbpre |-> "DIV1", usbclk_valid |-> FALSE]

Usb(self, pllmul_bits, sysclk) ==
    IF self.hse.some /\ pllmul_bits.some /\ sysclk = 72000000
    THEN [usbpre |-> "DIV1_5", usbclk_valid |-> TRUE]
    ELSE IF self.hse.some /\ pllmul_bits.some /\ sysclk = 48000000
    THEN [usbpre |-> "DIV1", usbclk_valid |-> TRUE]
    ELSE [usbpre |-> "DIV1", usbclk_valid |-> FALSE]

(* mutation: an absent adcclk target selects the smallest divisor *)
AdcpreBits_DefaultMin(self, pclk2_) ==
    IF self.adcclk.some
    THEN LET r == pclk2_ \div self.adcclk.val
         IN  CASE r \in 0..2 -> 0
               [] r \in 3..4 -> 1
               [] r \in 5..7 -> 2
               [] OTHER -> 3
    ELSE 0

AdcpreBits(self, pclk2_) ==
    IF self.adcclk.some
    THEN LET r == pclk2_ \div self.adcclk.val
         IN  CASE r \in 0..2 -> 0
               [] r \in 3..4 -> 1
               [] r \in 5..7 -> 2
               [] OTHER -> 3
    ELSE 3

Apre(adcpre_bits) == (adcpre_bits + 1) * 2

Pllsrc(self) == IF self.hse.some THEN "HSE_DIV_PREDIV" ELSE "HSI_DIV2"

(* The RccConfig that get_config returns when it returns *)
RccOf(self, conn) ==
    LET pll == PllStep(self, conn)
        sysclk_ == pll.sysclk
        hpre_bits == HpreBits(self, sysclk_)
        hclk_ == HclkOf(sysclk_, hpre_bits)
        ppre1_bits == PpreBits(self.pclk1, hclk_)
        ppre1 == Ppre(ppre1_bits)
        ppre2_bits == PpreBits(self.pclk2, hclk_)
        ppre2 == Ppre(ppre2_bits)
        pclk2_ == hclk_ \div ppre2
        usb == Usb(self, pll.pllmul_bits, sysclk_)
        adcpre_bits == AdcpreBits(self, pclk2_)
    IN  [latency |-> Latency(sysclk_),
         pllmul_bits |-> pll.pllmul_bits,
         pllsrc |-> Pllsrc(self),
         adcpre_bits |-> adcpre_bits,
         ppre1_bits |-> ppre1_bits,
         ppre2_bits |-> ppre2_bits,
         hpre_bits |-> hpre_bits,
         usbpre |-> usb.usbpre,
         sysclk |-> sysclk_,
         hclk |-> hclk_,
         pclk1 |-> hclk_ \div ppre1,
         pclk2 |-> pclk2_,
         adcclk |-> pclk2_ \div Apre(adcpre_bits),
         ppre1 |-> ppre1,
         ppre2 |-> ppre2,
         usbclk_valid |-> usb.usbclk_valid]

(***************************************************************************)
(* State machine: new, the setters, get_config                             *)
(***************************************************************************)
NewConfig ==
    [hse |-> None, hclk |-> None, pclk1 |-> None, pclk2 |-> None,
     sysclk |-> None, adcclk |-> None]

(* the value of rcc while no RccConfig has been returned *)
NoRcc ==
    [latency |-> "WS0", pllmul_bits |-> None, pllsrc |-> "HSI_DIV2",
     adcpre_bits |-> 0, ppre1_bits |-> 0, ppre2_bits |-> 0, hpre_bits |-> 0,
     usbpre |-> "DIV1", sysclk |-> 0, hclk |-> 0, pclk1 |-> 0, pclk2 |-> 0,
     adcclk |-> 0, ppre1 |-> 0, ppre2 |-> 0, usbclk_valid |-> FALSE]

(* AHB ratios at which the selected divisor is examined *)
AhbRatios == {1, 2, 3, 5, 6, 11, 12, 39, 40, 95, 96, 191, 192, 383, 384}

(* Frequencies offered to the setters.  1073741824 Hz = 2^30 is offered    *)
(* only with the connectivity feature, where the smallest multiplier is 4: *)
(* without it the product 2^31 fits a u32 but not the integers of TLC.    *)
HseInputs(conn) == IF conn THEN {8000000, 1073741824} ELSE {8000000}

SysclkInputs == {1, 15000000, 48000000, 72000000, 200000000}

HclkInputs == {HSI \div r : r \in AhbRatios} \cup {48000000}

Pclk1Inputs == {24000000, 4000000, 1600000, 1333333, 666666}

Pclk2Inputs == {4000000, 2666666, 727272}

AdcclkInputs == {4000000, 2000000, 1333333, 1000000}

Init ==
    /\ cfg = NewConfig
    /\ rcc = NoRcc
    /\ pc = "building"
    /\ wrapped = FALSE
    /\ connectivity \in BOOLEAN
    /\ overflow_checks \in BOOLEAN

Build == UNCHANGED <<rcc, pc, wrapped, connectivity, overflow_checks>>

new ==
    /\ cfg' = NewConfig
    /\ rcc' = NoRcc
    /\ pc' = "building"
    /\ wrapped' = FALSE
    /\ UNCHANGED <<connectivity, overflow_checks>>

use_hse ==
    /\ pc = "building"
    /\ \E freq \in HseInputs(connectivity) : cfg' = [cfg EXCEPT !.hse = Some(freq)]
    /\ Build

hclk ==
    /\ pc = "building"
    /\ \E freq \in HclkInputs : cfg' = [cfg EXCEPT !.hclk = Some(freq)]
    /\ Build

pclk1 ==
    /\ pc = "building"
    /\ \E freq \in Pclk1Inputs : cfg' = [cfg EXCEPT !.pclk1 = Some(freq)]
    /\ Build

pclk2 ==
    /\ pc = "building"
    /\ \E freq \in Pclk2Inputs : cfg' = [cfg EXCEPT !.pclk2 = Some(freq)]
    /\ Build

sysclk ==
    /\ pc = "building"
    /\ \E freq \in SysclkInputs : cfg' = [cfg EXCEPT !.sysclk = Some(freq)]
    /\ Build

adcclk ==
    /\ pc = "building"
    /\ \E freq \in AdcclkInputs : cfg' = [cfg EXCEPT !.adcclk = Some(freq)]
    /\ Build

get_config ==
    /\ pc = "building"
    /\ IF PllStep(cfg, connectivity).overflow /\ overflow_checks
       THEN /\ pc' = "panicked"
            /\ rcc' = NoRcc
            /\ wrapped' = FALSE
       ELSE /\ pc' = "returned"
            /\ rcc' = RccOf(cfg, connectivity)
            /\ wrapped' = PllStep(cfg, connectivity).overflow
    /\ UNCHANGED <<cfg, connectivity, overflow_checks>>

Next ==
    \/ new
    \/ use_hse
    \/ hclk
    \/ pclk1
    \/ pclk2
    \/ sysclk
    \/ adcclk
    \/ get_config

Spec == Init /\ [][Next]_vars

(***************************************************************************)
(* Properties                                                              *)
(***************************************************************************)
Done == pc = "returned"

Abs(x) == IF x < 0 THEN 0 - x ELSE x

(* the PLL input and the requested system clock, read off the ClockConfig *)
PllInput == IF cfg.hse.some THEN cfg.hse.val ELSE 4000000

Oscillator == IF cfg.hse.some THEN cfg.hse.val ELSE 8000000

Requested == IF cfg.sysclk.some THEN cfg.sysclk.val ELSE PllInput

(* C1: usbclk_valid holds exactly when hse is set, the PLL is not bypassed *)
(* and the resolved sysclk is 72 MHz or 48 MHz; usbpre is DIV1_5 exactly   *)
(* when usbclk_valid holds at 72 MHz and DIV1 otherwise.                   *)
C1_UsbValidity ==
    Done =>
        /\ rcc.usbclk_valid =
             (cfg.hse.some /\ rcc.pllmul_bits.some
                /\ rcc.sysclk \in {72000000, 48000000})
        /\ (rcc.usbpre = "DIV1_5") = (rcc.usbclk_valid /\ rcc.sysclk = 72000000)
        /\ (rcc.usbpre # "DIV1_5") => rcc.usbpre = "DIV1"

C1_Witness ==
    /\ Done
    /\ cfg.hse = Some(8000000)
    /\ cfg.sysclk = Some(72000000)
    /\ rcc.pllmul_bits = Some(7)
    /\ rcc.sysclk = 72000000
    /\ rcc.usbclk_valid
    /\ rcc.usbpre = "DIV1_5"

(* C2: whenever pllmul_bits = Some(b), b lies in 0..14 (2..7 with the      *)
(* connectivity feature), the resolved sysclk equals pllsrcclk * (b + 2),  *)
(* and sysclk <= 16 * pllsrcclk (9 * pllsrcclk with connectivity).  The    *)
(* products are stated through division so that they stay in range.        *)
C2_PllmulBits ==
    (Done /\ rcc.pllmul_bits.some) =>
        LET b == rcc.pllmul_bits.val
            top == IF connectivity THEN 9 ELSE 16
        IN  /\ b \in (IF connectivity THEN 2..7 ELSE 0..14)
            /\ rcc.sysclk % (b + 2) = 0
            /\ rcc.sysclk \div (b + 2) = PllInput
            /\ (rcc.sysclk + (top - 1)) \div top <= PllInput

(* the AHB divisor that an hpre_bits encoding selects *)
AhbTable == {1, 2, 4, 8, 16, 64, 128, 256, 512}

AhbDivisor ==
    CASE rcc.hpre_bits = 7 -> 1
      [] rcc.hpre_bits = 8 -> 2
      [] rcc.hpre_bits = 9 -> 4
      [] rcc.hpre_bits = 10 -> 8
      [] rcc.hpre_bits = 11 -> 16
      [] rcc.hpre_bits = 12 -> 64
      [] rcc.hpre_bits = 13 -> 128
      [] rcc.hpre_bits = 14 -> 256
      [] rcc.hpre_bits = 15 -> 512
      [] OTHER -> 0

AhbRatio == rcc.sysclk \div cfg.hclk.val

(* C3 as stated: with an hclk target set, the AHB divisor applied is the   *)
(* smallest entry of the table that is greater than or equal to the ratio  *)
(* r = resolved sysclk / requested hclk (512 when no entry is).            *)
C3_SmallestEntryAtLeastRatio ==
    (Done /\ cfg.hclk.some) =>
        /\ AhbDivisor \in AhbTable
        /\ rcc.hclk = rcc.sysclk \div AhbDivisor
        /\ AhbRatio <= 512 => AhbDivisor >= AhbRatio
        /\ \A e \in AhbTable : e >= AhbRatio => AhbDivisor <= e

(* C3 amended: with an hclk target set, the AHB divisor applied is the     *)
(* entry of the table nearest to the ratio r, the larger entry when r is   *)
(* equally far from two entries; hclk is sysclk divided by it.             *)
C3_NearestEntry ==
    (Done /\ cfg.hclk.some) =>
        /\ AhbDivisor \in AhbTable
        /\ rcc.hclk = rcc.sysclk \div AhbDivisor
        /\ \A e \in AhbTable :
              \/ Abs(AhbDivisor - AhbRatio) < Abs(e - AhbRatio)
              \/ Abs(AhbDivisor - AhbRatio) = Abs(e - AhbRatio) /\ AhbDivisor >= e

C3_Witness ==
    /\ Done
    /\ cfg.hclk.some
    /\ AhbRatio = 383
    /\ AhbDivisor = 256
    /\ rcc.hclk = rcc.sysclk \div 256

(* C4 as stated: an absent hclk, pclk1 or pclk2 target gives divisor 1 and *)
(* an absent adcclk target gives the smallest ADC divisor, 2.              *)
C4_MinimalDivision ==
    Done =>
        /\ ~cfg.hclk.some => (rcc.hpre_bits = 7 /\ rcc.hclk = rcc.sysclk)
        /\ ~cfg.pclk1.some => (rcc.ppre1 = 1 /\ rcc.pclk1 = rcc.hclk)
        /\ ~cfg.pclk2.some => (rcc.ppre2 = 1 /\ rcc.pclk2 = rcc.hclk)
        /\ ~cfg.adcclk.some =>
              (rcc.adcpre_bits = 0 /\ rcc.adcclk = rcc.pclk2 \div 2)

(* C4 amended: an absent hclk, pclk1 or pclk2 target gives divisor 1; an   *)
(* absent adcclk target gives the largest ADC divisor, 8 (adcpre_bits 3).  *)
C4_DefaultDivision ==
    Done =>
        /\ ~cfg.hclk.some => (rcc.hpre_bits = 7 /\ rcc.hclk = rcc.sysclk)
        /\ ~cfg.pclk1.some =>
              (rcc.ppre1_bits = 3 /\ rcc.ppre1 = 1 /\ rcc.pclk1 = rcc.hclk)
        /\ ~cfg.pclk2.some =>
              (rcc.ppre2_bits = 3 /\ rcc.ppre2 = 1 /\ rcc.pclk2 = rcc.hclk)
        /\ ~cfg.adcclk.some =>
              (rcc.adcpre_bits = 3 /\ rcc.adcclk = rcc.pclk2 \div 8)

C4_Witness ==
    /\ Done
    /\ ~cfg.hclk.some /\ ~cfg.pclk1.some /\ ~cfg.pclk2.some /\ ~cfg.adcclk.some
    /\ rcc.sysclk = 72000000
    /\ rcc.pclk2 = 72000000
    /\ rcc.adcclk = 9000000

(* the system clocks the default variant can produce from the oscillator *)
Achievable == {Oscillator} \cup {PllInput * m : m \in 2..16}

(* C5 as stated (default variant): when the request is not exactly         *)
(* achievable, the resolved sysclk is an achievable value nearest to it.   *)
C5_NearestSysclk ==
    (Done /\ ~connectivity /\ Requested \notin Achievable) =>
        \A a \in Achievable :
            Abs(rcc.sysclk - Requested) <= Abs(a - Requested)

(* C5 amended (default variant): the resolved sysclk is found by           *)
(* truncation.  With q = requested / pllsrcclk: q = 1 bypasses the PLL and *)
(* gives the oscillator frequency; q >= 2 gives the largest                *)
(* pllsrcclk * m, m in 2..16, that does not exceed the request, which for  *)
(* q >= 16 is the nearest achievable value; q = 0 selects the smallest     *)
(* multiplier, 2, and not the bypassed oscillator.                         *)
C5_TruncatedSysclk ==
    (Done /\ ~connectivity) =>
        LET q == Requested \div PllInput
        IN  /\ q = 1 => (rcc.sysclk = Oscillator /\ ~rcc.pllmul_bits.some)
            /\ q >= 2 =>
                 /\ \E m \in 2..16 :
                       rcc.sysclk = PllInput * m /\ rcc.pllmul_bits = Some(m - 2)
                 /\ rcc.sysclk <= Requested
                 /\ \A m \in 2..16 :
                       PllInput * m <= Requested => PllInput * m <= rcc.sysclk
            /\ q >= 16 =>
                 \A a \in Achievable :
                     Abs(rcc.sysclk - Requested) <= Abs(a - Requested)
            /\ q = 0 => rcc.pllmul_bits = Some(0)

C5_Witness ==
    /\ Done
    /\ ~connectivity
    /\ ~cfg.hse.some
    /\ cfg.sysclk = Some(15000000)
    /\ rcc.sysclk = 12000000
    /\ rcc.pllmul_bits = Some(1)

(* C6: get_config completes and returns an RccConfig, and no intermediate  *)
(* value leaves the range of its unsigned type.                            *)
C6_NoOverflow ==
    pc # "building" => (pc = "returned" /\ ~wrapped)

(* C7: a raw multiplier of 1 bypasses the PLL: pllmul_bits is None and     *)
(* sysclk is hse, or the undivided HSI; for ClockConfig::new() every clock *)
(* is HSI, every divisor is 1 and usbclk_valid is false.                   *)
C7_Bypass ==
    Done =>
        /\ Requested \div PllInput = 1 =>
              (~rcc.pllmul_bits.some /\ rcc.sysclk = Oscillator)
        /\ cfg = NewConfig =>
              /\ rcc.sysclk = 8000000 /\ rcc.hclk = 8000000
              /\ rcc.pclk1 = 8000000 /\ rcc.pclk2 = 8000000
              /\ ~rcc.pllmul_bits.some
              /\ rcc.hpre_bits = 7 /\ rcc.ppre1 = 1 /\ rcc.ppre2 = 1
              /\ ~rcc.usbclk_valid

C7_Witness ==
    /\ Done
    /\ cfg = NewConfig
    /\ rcc.sysclk = 8000000
    /\ ~rcc.pllmul_bits.some

(* C8: every resolved frequency is what the emitted encodings produce by   *)
(* integer division, the encodings are in their ranges, and                *)
(* adcclk <= pclk2 <= hclk <= sysclk, pclk1 <= hclk.                       *)
C8_FrequenciesFromEncodings ==
    Done =>
        /\ rcc.hpre_bits \in 7..15
        /\ rcc.ppre1_bits \in 3..7
        /\ rcc.ppre2_bits \in 3..7
        /\ rcc.adcpre_bits \in 0..3
        /\ rcc.hclk = rcc.sysclk \div AhbDivisor
        /\ AhbDivisor = (IF rcc.hpre_bits <= 11 THEN 2 ^ (rcc.hpre_bits - 7)
                                               ELSE 2 ^ (rcc.hpre_bits - 6))
        /\ rcc.ppre1 = 2 ^ (rcc.ppre1_bits - 3)
        /\ rcc.pclk1 = rcc.hclk \div rcc.ppre1
        /\ rcc.ppre2 = 2 ^ (rcc.ppre2_bits - 3)
        /\ rcc.pclk2 = rcc.hclk \div rcc.ppre2
        /\ rcc.adcclk = rcc.pclk2 \div ((rcc.adcpre_bits + 1) * 2)
        /\ rcc.adcclk <= rcc.pclk2
        /\ rcc.pclk2 <= rcc.hclk
        /\ rcc.hclk <= rcc.sysclk
        /\ rcc.pclk1 <= rcc.hclk

C8_Witness ==
    /\ Done
    /\ rcc.hpre_bits = 12
    /\ rcc.hclk = rcc.sysclk \div 64
    /\ rcc.ppre1_bits = 5
    /\ rcc.ppre2_bits = 4
    /\ cfg.adcclk.some
    /\ rcc.adcclk > 0

(* C9: the flash wait-state depends on the resolved sysclk only: WS0 up to *)
(* 24 MHz, WS1 above 24 MHz up to 48 MHz, WS2 above 48 MHz.                *)
C9_Latency ==
    Done =>
        /\ rcc.latency \in {"WS0", "WS1", "WS2"}
        /\ (rcc.latency = "WS0") = (rcc.sysclk <= 24000000)
        /\ (rcc.latency = "WS1") =
              (24000000 < rcc.sysclk /\ rcc.sysclk <= 48000000)
        /\ (rcc.latency = "WS2") = (rcc.sysclk > 48000000)

C9_Witness ==
    /\ Done
    /\ cfg.sysclk = Some(1)
    /\ rcc.sysclk = 32000000
    /\ rcc.latency = "WS1"

ApbBucket(r) ==
    IF r <= 1 THEN 1
    ELSE IF r = 2 THEN 2
    ELSE IF r <= 5 THEN 4
    ELSE IF r <= 11 THEN 8
    ELSE 16

(* C10: APB1 and APB2 are resolved by the same buckets on hclk / target,   *)
(* each from hclk and its own target alone; hse 8 MHz with sysclk and hclk *)
(* targets 48 MHz and pclk1 target 24 MHz gives AHB divisor 1, ppre1 2 and *)
(* pclk1 24 MHz.                                                           *)
C10_ApbBuckets ==
    Done =>
        /\ cfg.pclk1.some =>
              /\ rcc.ppre1 = ApbBucket(rcc.hclk \div cfg.pclk1.val)
              /\ rcc.pclk1 = rcc.hclk \div ApbBucket(rcc.hclk \div cfg.pclk1.val)
        /\ cfg.pclk2.some =>
              /\ rcc.ppre2 = ApbBucket(rcc.hclk \div cfg.pclk2.val)
              /\ rcc.pclk2 = rcc.hclk \div ApbBucket(rcc.hclk \div cfg.pclk2.val)
        /\ ( /\ cfg.hse = Some(8000000) /\ cfg.sysclk = Some(48000000)
             /\ cfg.hclk = Some(48000000) /\ cfg.pclk1 = Some(24000000) ) =>
              (AhbDivisor = 1 /\ rcc.ppre1 = 2 /\ rcc.pclk1 = 24000000)

C10_Witness ==
    /\ Done
    /\ cfg.hse = Some(8000000) /\ cfg.sysclk = Some(48000000)
    /\ cfg.hclk = Some(48000000) /\ cfg.pclk1 = Some(24000000)
    /\ cfg.pclk2 = Some(4000000)
    /\ rcc.ppre1 = 2 /\ rcc.pclk1 = 24000000
    /\ rcc.ppre2 = 16 /\ rcc.pclk2 = 3000000

====
